---- MODULE Spec2Model ----
(***************************************************************************)
(* Three notebooks of amazon-sagemaker-examples as state machines:         *)
(*   - the fraud-detection data-preparation notebook (src/unnamed/part_000)*)
(*     creating two feature groups, waiting for them, ingesting records,   *)
(*     waiting for the offline store and assembling the join query;        *)
(*   - the tuning-step pipeline notebook (src/unnamed/part_001): the step  *)
(*     graph it declares, run by the pipeline execution engine;            *)
(*   - the GPT-J deployment notebook (src/advanced_functionality/...):     *)
(*     the image cell, the packaging of model.py, the calls that stand up  *)
(*     the endpoint, and the inference handler of model.py.                *)
(* Spec is the data-preparation notebook, WaitSpec its cells up to the wait *)
(* for the feature groups with the interpreter always running the next     *)
(* statement, QuerySpec the query assembly cell on arbitrary dataframes,   *)
(* PipelineSpec the pipeline, DeploySpec the deployment notebook and       *)
(* HandlerSpec the handler in a model server worker.                       *)
(***************************************************************************)
EXTENDS Integers, Sequences, FiniteSets, TLC

VARIABLES
    \* ---- data-preparation notebook: the kernel
    cell,          \* the statement the interpreter runs next
    run,           \* how many times the notebook has been run top to bottom
    locals,        \* names defined in the kernel session
    exc,           \* the exception that ended the run, or NoExc
    \* ---- wait_for_feature_group_creation_complete, per feature group
    wpc,           \* position inside the running wait loop: "call" | "test" | "sleep"
    status,        \* its local variable status
    responses,     \* statuses the describe calls of this run answered
    queries,       \* describe calls the function issued in this run
    sleeps,        \* sleeps of the function in this run, in seconds each
    outcome,       \* "none" | "returned" | "raised" | "error"
    \* ---- the two create calls
    createErr,     \* what each create call answered: "none" | "ok" | an error code
    createRes,     \* "none" | "created" | "swallowed" | "raised"
    \* ---- ingestion, offline store, query
    ingested,      \* feature groups this run has ingested into
    observed,      \* feature groups whose offline prefix a listing showed data for
    listings,      \* list_objects calls the offline wait loop issued in this run
    queryRun,      \* the join query has been submitted in this run
    ingestCalled,  \* feature groups whose ingest() this run has called
    pending,       \* rows of the dataframe being ingested that no worker has taken yet
    inflight,      \* PutRecord calls issued and not yet answered
    \* ---- remote calls and sleeps
    lastCall,      \* the API of the last remote call the client issued
    slept,         \* seconds of the sleep since that call, 0 if none
    reissued,      \* <<API, seconds, cell>>: in that cell the API was called again after a sleep
    \* ---- the remote services
    remote,        \* FeatureGroupStatus of each group, or "Absent"
    buffered,      \* groups holding put records the offline store still writes out
    s3objs,        \* objects under each group's offline-store prefix
    \* ---- the query assembly
    claimsCols,    \* set(claims_preprocessed.columns)
    customersCols, \* set(customers_preprocessed.columns)
    queryString,   \* query_string as a sequence of tokens, <<>> before the cell
    \* ---- the pipeline
    pstate,        \* "defined" | "upserted" | "started"
    stepStatus,    \* per step: "NotStarted" | "Executing" | "Succeeded" | "Failed"
    mse,           \* regression_metrics.mse.value of evaluation.json, -1 before
    condOutcome,   \* "none" | "true" | "false": what the condition step decided
    created,       \* top_k of the tuning models a SageMaker Model was created from
    evaluated,     \* top_k of the tuning model the evaluation read, -1 before
    registry,      \* <<model package group, top_k>> of the registered versions
    \* ---- the deployment notebook: the kernel and its working directory
    dcell,         \* the cell (or command of a %%sh cell) that runs next
    dexc,          \* the exception that stopped the run, "none" if none
    reached,       \* how far down the notebook the cells have been run
    jumps,         \* how often the user went back to run an earlier cell again
    files,         \* of model.py and serving.properties, those in the working directory
    written,       \* of these, those a %%writefile cell has written at least once
    gptj,          \* the files in directory gpt-j, NoDir if there is none
    tar,           \* the files in gpt-j.tar.gz, NoDir if there is none
    describeExit,  \* exit status of describe-repositories in the running script, -1 before
    repoSeen,      \* whether the repository existed when describe-repositories ran
    createCalled,  \* the running script has called create-repository
    pushSaw,       \* "none" | "exists" | "missing": the repository when docker push ran
    modelUrl,      \* model_s3_url: "none" | "set"
    timeStamp,     \* time_stamp, 0 while undefined
    modelName,     \* model_name, by its time stamp
    configName,    \* endpoint_config_name, by its time stamp
    endpointName,  \* endpoint_name, by its time stamp
    invokeSaw,     \* the endpoint's status when invoke_endpoint was last issued, "none" before
    calls,         \* the remote calls of the deployment issued since the run began
    runFrom,       \* the cell the current run began at
    \* ---- the deployment notebook: the remote services
    repo,          \* the ECR repository djl_deepspeed exists
    uploaded,      \* the files in the archive at the S3 path, NoDir if there is none
    clock,         \* datetime.now(), in seconds
    models,        \* names of the SageMaker models
    configs,       \* <<name, model name>> of the endpoint configurations
    endpoint,      \* status of the endpoint of each name, "Absent" if there is none
    \* ---- the inference handler in a model server worker
    predictor,     \* the global predictor: "None" | "generator"
    served         \* the calls of handle so far: input, what came back, whether inference ran

dpVars == <<cell, run, locals, exc, wpc, status, responses, queries, sleeps,
            outcome, createErr, createRes, ingested, observed, listings,
            queryRun, ingestCalled, pending, inflight, lastCall, slept, reissued,
            remote, buffered, s3objs>>
qVars == <<claimsCols, customersCols, queryString>>
pVars == <<pstate, stepStatus, mse, condOutcome, created, evaluated, registry>>
dVars == <<dcell, dexc, reached, jumps, files, written, gptj, tar, describeExit, repoSeen,
           createCalled, pushSaw, modelUrl, timeStamp, modelName, configName,
           endpointName, invokeSaw, calls, runFrom, repo, uploaded, clock, models,
           configs, endpoint>>
hVars == <<predictor, served>>
vars == <<dpVars, qVars, pVars, dVars, hVars>>

----
\* Bounds of the model.
MaxPolls == 4
MaxListings == 3
MaxRuns == 2
MaxObjects == 2
MaxMse == 8
MaxRecords == 4
MaxClock == 2
MaxJumps == 1
MaxRequests == 3
MaxSamples == 2

----
\* Feature groups and the statuses DescribeFeatureGroup reports.
FG == {"claims", "customers"}

Statuses == {"Creating", "Created", "CreateFailed", "Deleting"}

\* What .get("FeatureGroupStatus") can give: a status, or None when the key is missing.
Responses == Statuses \cup {"None"}

CellOrder == <<"bucket", "create_claims", "create_customers", "wait_claims",
               "wait_customers", "ingest_claims", "ingest_customers", "tables",
               "offline_wait", "catalog", "build_query", "run_query", "done">>

----
\* Program constants.
PollInterval == 5
OfflineInterval == 60
MinContents == 1

NoExc == [type |-> "none", code |-> "none", about |-> "none"]

\* What no step of the notebook run changes.
fixed == <<run, claimsCols, customersCols, pVars, dVars, hVars>>

pollVars == <<wpc, status, responses, queries, sleeps, outcome>>
createVars == <<createErr, createRes>>
storeVars == <<ingested, observed, listings, queryRun>>
workVars == <<ingestCalled, pending, inflight>>
callVars == <<lastCall, slept, reissued>>
envVars == <<remote, buffered, s3objs>>

\* A remote call of the client: it is a re-issue when the client slept since
\* the last call and that call was to the same API.
Issue(api) ==
    /\ lastCall' = api
    /\ slept' = 0
    /\ reissued' = IF slept # 0 /\ lastCall = api
                   THEN reissued \cup {<<api, slept, cell>>}
                   ELSE reissued

\* time.sleep(seconds)
Sleep(seconds) ==
    /\ slept' = seconds
    /\ UNCHANGED <<lastCall, reissued>>

CellOf(kind, fg) ==
    IF kind = "create" THEN (IF fg = "claims" THEN "create_claims" ELSE "create_customers")
    ELSE IF kind = "wait" THEN (IF fg = "claims" THEN "wait_claims" ELSE "wait_customers")
    ELSE (IF fg = "claims" THEN "ingest_claims" ELSE "ingest_customers")

After(c) ==
    CASE c = "bucket" -> "create_claims"
      [] c = "create_claims" -> "create_customers"
      [] c = "create_customers" -> "wait_claims"
      [] c = "wait_claims" -> "wait_customers"
      [] c = "wait_customers" -> "ingest_claims"
      [] c = "ingest_claims" -> "ingest_customers"
      [] c = "ingest_customers" -> "tables"
      [] c = "tables" -> "offline_wait"
      [] c = "offline_wait" -> "catalog"
      [] c = "catalog" -> "build_query"
      [] c = "build_query" -> "run_query"
      [] c = "run_query" -> "done"

\* A kernel that records the exception and runs the next statement all the same.
RaiseAndGoOn(e) ==
    /\ cell' = After(cell)
    /\ exc' = e

\* An exception leaves the cell: the run stops there.
Raise(e) ==
    /\ cell' = "aborted"
    /\ exc' = e

Goto(c) ==
    /\ cell' = c
    /\ exc' = exc

----
\* A cell that asks for the default bucket on every run.
BucketCellAlways ==
    /\ cell = "bucket"
    /\ locals' = locals \cup {"bucket"}
    /\ Issue("DefaultBucket")
    /\ Goto(After(cell))
    /\ UNCHANGED <<fixed, workVars, queryString, pollVars, createVars, storeVars, envVars>>

\* if "bucket" not in locals(): bucket = sagemaker_session.default_bucket()
BucketCell ==
    /\ cell = "bucket"
    /\ IF "bucket" \notin locals
       THEN /\ locals' = locals \cup {"bucket"}
            /\ Issue("DefaultBucket")
       ELSE UNCHANGED <<locals, callVars>>
    /\ Goto(After(cell))
    /\ UNCHANGED <<fixed, workVars, queryString, pollVars, createVars, storeVars, envVars>>

\* What CreateFeatureGroup answers: success for a new name, ResourceInUse for
\* an existing one, or any other failure, with an error code or (an exception
\* that is no ClientError) without one.
CreateAnswers(fg) ==
    (IF remote[fg] = "Absent" THEN {"ok"} ELSE {"ResourceInUse"})
        \cup {"AccessDenied", "NoCode"}

\* A handler that lets every error code pass.
SwallowedAnyCode(code) == TRUE

\* except Exception as e: if code == "ResourceInUse": print(...)
Swallowed(code) == code = "ResourceInUse"

\* The try/except around one feature_group.create call.
CreateFeatureGroup(fg) ==
    /\ cell = CellOf("create", fg)
    /\ Issue("CreateFeatureGroup")
    /\ \E r \in CreateAnswers(fg) :
        /\ createErr' = [createErr EXCEPT ![fg] = r]
        /\ remote' = IF r = "ok" THEN [remote EXCEPT ![fg] = "Creating"] ELSE remote
        /\ IF r = "ok"
           THEN /\ createRes' = [createRes EXCEPT ![fg] = "created"]
                /\ Goto(After(cell))
           ELSE IF r = "NoCode"
           THEN \* e.response does not exist: the handler itself raises
                /\ createRes' = [createRes EXCEPT ![fg] = "raised"]
                /\ Raise([type |-> "AttributeError", code |-> "none", about |-> fg])
           ELSE IF Swallowed(r)
           THEN /\ createRes' = [createRes EXCEPT ![fg] = "swallowed"]
                /\ Goto(After(cell))
           ELSE /\ createRes' = [createRes EXCEPT ![fg] = "raised"]
                /\ Raise([type |-> "ClientError", code |-> r, about |-> fg])
    /\ UNCHANGED <<fixed, workVars, queryString, locals, pollVars, storeVars, buffered, s3objs>>

----
\* wait_for_feature_group_creation_complete(feature_group)

\* A loop that polls until the group is created: while status != "Created".
StillNotCreated(s) == s # "Created"

\* while status == "Creating":
StillCreating(s) == s = "Creating"

\* A check that knows one failure only: if status == "CreateFailed".
CreationFailedOnly(s) == s = "CreateFailed"

\* if status != "Created": raise RuntimeError(...)
CreationFailed(s) == s # "Created"

\* What feature_group.describe().get("FeatureGroupStatus") can give.
DescribeAnswers(fg) ==
    IF remote[fg] = "Absent" THEN {} ELSE {remote[fg], "None"}

\* A describe that asks twice for every status it hands back.
DescribeTwice(fg) ==
    /\ cell = CellOf("wait", fg)
    /\ wpc = "call"
    /\ queries[fg] < MaxPolls
    /\ Issue("DescribeFeatureGroup")
    /\ queries' = [queries EXCEPT ![fg] = @ + 2]
    /\ \E r \in DescribeAnswers(fg) :
            /\ status' = [status EXCEPT ![fg] = r]
            /\ responses' = [responses EXCEPT ![fg] = Append(@, r)]
            /\ wpc' = "test"
            /\ UNCHANGED <<cell, exc, outcome>>
    /\ UNCHANGED <<fixed, workVars, queryString, locals, sleeps, createVars, storeVars, envVars>>

\* status = feature_group.describe().get("FeatureGroupStatus"), before the loop
\* and at the end of its body; the call itself may raise.
Describe(fg) ==
    /\ cell = CellOf("wait", fg)
    /\ wpc = "call"
    /\ queries[fg] < MaxPolls
    /\ Issue("DescribeFeatureGroup")
    /\ queries' = [queries EXCEPT ![fg] = @ + 1]
    /\ \/ \E r \in DescribeAnswers(fg) :
            /\ status' = [status EXCEPT ![fg] = r]
            /\ responses' = [responses EXCEPT ![fg] = Append(@, r)]
            /\ wpc' = "test"
            /\ UNCHANGED <<cell, exc, outcome>>
       \/ /\ outcome' = [outcome EXCEPT ![fg] = "error"]
          /\ Raise([type |-> "ClientError", code |-> "DescribeFailed", about |-> fg])
          /\ UNCHANGED <<status, responses, wpc>>
    /\ UNCHANGED <<fixed, workVars, queryString, locals, sleeps, createVars, storeVars, envVars>>

\* A loop body with a client-side timeout: after the first sleep it gives the
\* group up as failed without asking again.
PollSleepTimeout(fg) ==
    /\ cell = CellOf("wait", fg)
    /\ wpc = "test"
    /\ StillCreating(status[fg])
    /\ Sleep(PollInterval)
    /\ sleeps' = [sleeps EXCEPT ![fg] = Append(@, PollInterval)]
    /\ IF Len(sleeps[fg]) >= 1
       THEN /\ status' = [status EXCEPT ![fg] = "TimedOut"]
            /\ wpc' = "test"
       ELSE /\ status' = status
            /\ wpc' = "call"
    /\ UNCHANGED <<cell, exc, fixed, workVars, queryString, locals, responses, queries, outcome,
                   createVars, storeVars, envVars>>

\* The loop body up to the next describe: print, time.sleep(5).
PollSleep(fg) ==
    /\ cell = CellOf("wait", fg)
    /\ wpc = "test"
    /\ StillCreating(status[fg])
    /\ Sleep(PollInterval)
    /\ sleeps' = [sleeps EXCEPT ![fg] = Append(@, PollInterval)]
    /\ wpc' = "call"
    /\ UNCHANGED <<cell, exc, fixed, workVars, queryString, locals, status, responses, queries, outcome,
                   createVars, storeVars, envVars>>

\* The check without the loop around it: an if where the while belongs.
PollFinishEarly(fg) ==
    /\ cell = CellOf("wait", fg)
    /\ wpc = "test"
    /\ IF CreationFailed(status[fg])
       THEN /\ outcome' = [outcome EXCEPT ![fg] = "raised"]
            /\ Raise([type |-> "RuntimeError", code |-> "none", about |-> fg])
       ELSE /\ outcome' = [outcome EXCEPT ![fg] = "returned"]
            /\ Goto(After(cell))
    /\ wpc' = "call"
    /\ UNCHANGED <<fixed, workVars, queryString, locals, status, responses, queries, sleeps,
                   createVars, storeVars, callVars, envVars>>

\* After the loop: raise RuntimeError naming the group, or print and return.
PollFinish(fg) ==
    /\ cell = CellOf("wait", fg)
    /\ wpc = "test"
    /\ ~StillCreating(status[fg])
    /\ IF CreationFailed(status[fg])
       THEN /\ outcome' = [outcome EXCEPT ![fg] = "raised"]
            /\ Raise([type |-> "RuntimeError", code |-> "none", about |-> fg])
       ELSE /\ outcome' = [outcome EXCEPT ![fg] = "returned"]
            /\ Goto(After(cell))
    /\ wpc' = "call"
    /\ UNCHANGED <<fixed, workVars, queryString, locals, status, responses, queries, sleeps,
                   createVars, storeVars, callVars, envVars>>

----
\* The ingest cell: if "claims_table" in locals(): print(...) else: ingest both.
IngestSkip ==
    /\ cell = "ingest_claims"
    /\ "claims_table" \in locals
    /\ Goto("tables")
    /\ UNCHANGED <<fixed, workVars, queryString, locals, pollVars, createVars, storeVars, callVars, envVars>>

\* feature_group.ingest(data_frame=..., max_workers=3, wait=True)
MaxWorkers == 3

IngestCells == {"ingest_claims", "ingest_customers"}

\* A pool that starts a thread for every row.
WorkerAlwaysFree(n) == TRUE

\* The pool of max_workers threads: a row is taken up when a worker is free.
WorkerFree(n) == n < MaxWorkers

\* The call of ingest: the rows of the dataframe are handed to the pool.
Ingest(fg) ==
    /\ cell = CellOf("ingest", fg)
    /\ "claims_table" \notin locals
    /\ fg \notin ingestCalled
    /\ ingestCalled' = ingestCalled \cup {fg}
    /\ pending' = MaxRecords
    /\ UNCHANGED <<cell, exc, fixed, inflight, queryString, locals, pollVars, createVars,
                   storeVars, callVars, envVars>>

\* A worker thread issues PutRecord for the next row.
PutRecord(fg) ==
    /\ cell = CellOf("ingest", fg)
    /\ fg \in ingestCalled
    /\ pending > 0
    /\ WorkerFree(inflight)
    /\ Issue("PutRecord")
    /\ pending' = pending - 1
    /\ inflight' = inflight + 1
    /\ UNCHANGED <<cell, exc, fixed, ingestCalled, queryString, locals, pollVars, createVars,
                   storeVars, envVars>>

\* A PutRecord call is answered: the record is accepted, or the call failed.
PutRecordDone(fg) ==
    /\ cell = CellOf("ingest", fg)
    /\ inflight > 0
    /\ inflight' = inflight - 1
    /\ \/ buffered' = buffered \cup {fg}
       \/ buffered' = buffered
    /\ UNCHANGED <<cell, exc, fixed, ingestCalled, pending, queryString, locals, pollVars,
                   createVars, storeVars, callVars, remote, s3objs>>

\* wait=True: ingest returns when every row is done, and raises if rows failed.
IngestWait(fg) ==
    /\ cell = CellOf("ingest", fg)
    /\ fg \in ingestCalled
    /\ pending = 0
    /\ inflight = 0
    /\ \/ /\ ingested' = ingested \cup {fg}
          /\ Goto(After(cell))
       \/ /\ Raise([type |-> "RuntimeError", code |-> "IngestFailed", about |-> fg])
          /\ UNCHANGED ingested
    /\ UNCHANGED <<fixed, workVars, queryString, locals, pollVars, createVars, observed, listings,
                   queryRun, callVars, envVars>>

\* if "claims_table" not in locals(): claims_table = claims_feature_group.describe()[...]
\* and the same for customers_table; then the two prefixes are computed.
TablesCell ==
    /\ cell = "tables"
    /\ IF {"claims_table", "customers_table"} \subseteq locals
       THEN UNCHANGED callVars
       ELSE Issue("DescribeFeatureGroup")
    /\ locals' = locals \cup {"claims_table", "customers_table"}
    /\ Goto(After(cell))
    /\ wpc' = "call"
    /\ UNCHANGED <<fixed, workVars, queryString, status, responses, queries, sleeps, outcome, createVars,
                   storeVars, envVars>>

\* The prefixes the wait loop lists: Prefix=customers_feature_group_s3_prefix.
WaitedPrefixes == {"customers"}

\* "Contents" in objects_in_bucket and len(objects_in_bucket["Contents"]) > 1
HasContents(n) == n > MinContents

\* One pass of "while offline_store_contents is None": list_objects, then either
\* offline_store_contents is set and the loop ends, or the else branch is taken.
ListObjects ==
    /\ cell = "offline_wait"
    /\ wpc = "call"
    /\ listings < MaxListings
    /\ Issue("ListObjects")
    /\ listings' = listings + 1
    /\ IF \A fg \in WaitedPrefixes : HasContents(s3objs[fg])
       THEN /\ observed' = observed \cup WaitedPrefixes
            /\ Goto(After(cell))
            /\ wpc' = "call"
       ELSE /\ wpc' = "sleep"
            /\ UNCHANGED <<observed, cell, exc>>
    /\ UNCHANGED <<fixed, workVars, queryString, locals, status, responses, queries, sleeps, outcome,
                   createVars, ingested, queryRun, envVars>>

\* else: print("Waiting for data in offline store..."); time.sleep(60)
OfflineSleep ==
    /\ cell = "offline_wait"
    /\ wpc = "sleep"
    /\ Sleep(OfflineInterval)
    /\ wpc' = "call"
    /\ UNCHANGED <<cell, exc, fixed, workVars, queryString, locals, status, responses, queries, sleeps,
                   outcome, createVars, storeVars, envVars>>

\* The cell that displays both groups' DataCatalogConfig: two describe calls.
CatalogCell ==
    /\ cell = "catalog"
    /\ Issue("DescribeFeatureGroup")
    /\ Goto(After(cell))
    /\ UNCHANGED <<fixed, workVars, queryString, locals, pollVars, createVars, storeVars, envVars>>

----
\* The query assembly. A string is the sequence of its tokens; a quoted column
\* name is the token of that name.
PolicyIdExpr == "claims_table.policy_id as policy_id"
Comma == ", "

\* All orders in which list(set) can enumerate a set.
Orders(S) ==
    {o \in [1..Cardinality(S) -> S] : \A i, j \in 1..Cardinality(S) : o[i] = o[j] => i = j}

\* set(claims_preprocessed.columns) ^ set(customers_preprocessed.columns)
SymmetricDifference(A, B) == (A \ B) \cup (B \ A)

\* ", ".join(parts)
RECURSIVE CommaJoin(_)
CommaJoin(parts) ==
    IF Len(parts) = 0 THEN <<>>
    ELSE IF Len(parts) = 1 THEN <<parts[1]>>
    ELSE <<parts[1], Comma>> \o CommaJoin(Tail(parts))

\* feature_columns_string, after its second assignment
FeatureColumnsString(featureColumns) ==
    <<PolicyIdExpr, Comma>> \o CommaJoin(featureColumns)

\* query_string = f"""SELECT DISTINCT {feature_columns_string} FROM ... ON ..."""
QueryString(featureColumns) ==
    <<"SELECT DISTINCT">> \o FeatureColumnsString(featureColumns)
        \o <<"FROM", "claims_table", "LEFT JOIN", "customers_table", "ON",
             "claims_table.policy_id = customers_table.policy_id">>

\* The cell building the query: athena_query() of both groups, claims_table and
\* customers_table are (re)assigned, the query string is assembled.
BuildQuery ==
    /\ cell = "build_query"
    /\ Issue("DescribeFeatureGroup")
    /\ locals' = locals \cup {"claims_table", "customers_table"}
    /\ \E featureColumns \in Orders(SymmetricDifference(claimsCols, customersCols)) :
           queryString' = QueryString(featureColumns)
    /\ Goto(After(cell))
    /\ UNCHANGED <<fixed, workVars, pollVars, createVars, storeVars, envVars>>

\* A query cell that sleeps and submits the query again when it failed.
RunQueryRetry ==
    /\ cell = "run_query"
    /\ lastCall' = "StartQueryExecution"
    /\ reissued' = IF slept # 0 /\ lastCall = "StartQueryExecution"
                   THEN reissued \cup {<<"StartQueryExecution", slept, cell>>}
                   ELSE reissued
    /\ queryRun' = TRUE
    /\ \/ /\ Goto(After(cell))
          /\ slept' = 0
       \/ /\ UNCHANGED <<cell, exc>>
          /\ slept' = PollInterval
    /\ UNCHANGED <<fixed, workVars, queryString, locals, pollVars, createVars, ingested, observed,
                   listings, envVars>>

\* claims_query.run(query_string=...), claims_query.wait(), as_dataframe()
RunQuery ==
    /\ cell = "run_query"
    /\ Issue("StartQueryExecution")
    /\ queryRun' = TRUE
    /\ \/ Goto(After(cell))
       \/ Raise([type |-> "RuntimeError", code |-> "QueryFailed", about |-> "claims"])
    /\ UNCHANGED <<fixed, workVars, queryString, locals, pollVars, createVars, ingested, observed, listings,
                   envVars>>

----
\* The notebook is run again from the top, in the same kernel session or in a
\* restarted one; the remote resources stay as they are.
NoneOf == [fg \in FG |-> "none"]

Rerun ==
    /\ cell \in {"done", "aborted"}
    /\ run < MaxRuns
    /\ run' = run + 1
    /\ cell' = "bucket"
    /\ exc' = NoExc
    /\ locals' \in {locals, {}}
    /\ wpc' = "call"
    /\ status' = [fg \in FG |-> "Unset"]
    /\ responses' = [fg \in FG |-> <<>>]
    /\ queries' = [fg \in FG |-> 0]
    /\ sleeps' = [fg \in FG |-> <<>>]
    /\ outcome' = NoneOf
    /\ createErr' = NoneOf
    /\ createRes' = NoneOf
    /\ ingested' = {}
    /\ observed' = {}
    /\ listings' = 0
    /\ queryRun' = FALSE
    /\ ingestCalled' = {}
    /\ pending' = 0
    /\ inflight' = 0
    /\ lastCall' = "none"
    /\ slept' = 0
    /\ queryString' = <<>>
    /\ UNCHANGED <<reissued, envVars, claimsCols, customersCols, pVars, dVars, hVars>>

----
\* The remote services, on their own.

\* The feature store finishes (or fails) a creation; somebody else deletes a group.
RemoteStep(fg) ==
    /\ \/ /\ remote[fg] = "Creating"
          /\ \E s \in {"Created", "CreateFailed"} : remote' = [remote EXCEPT ![fg] = s]
       \/ /\ remote[fg] = "Created"
          /\ remote' = [remote EXCEPT ![fg] = "Deleting"]
    /\ UNCHANGED <<cell, fixed, workVars, queryString, locals, exc, pollVars, createVars, storeVars, callVars,
                   buffered, s3objs>>

\* The offline store writes buffered records of a group to S3.
OfflineWrite(fg) ==
    /\ fg \in buffered
    /\ s3objs[fg] < MaxObjects
    /\ s3objs' = [s3objs EXCEPT ![fg] = @ + 1]
    /\ UNCHANGED <<cell, fixed, workVars, queryString, locals, exc, pollVars, createVars, storeVars, callVars,
                   remote, buffered>>

----
\* The notebook's dataframes: claims_dtypes and customers_dtypes share
\* policy_id and event_time only.
ClaimsColumns == {"policy_id", "event_time", "fraud"}
CustomersColumns == {"policy_id", "event_time", "customer_age"}

DataPrepInit ==
    /\ cell = "bucket"
    /\ run = 1
    /\ locals = {}
    /\ exc = NoExc
    /\ wpc = "call"
    /\ status = [fg \in FG |-> "Unset"]
    /\ responses = [fg \in FG |-> <<>>]
    /\ queries = [fg \in FG |-> 0]
    /\ sleeps = [fg \in FG |-> <<>>]
    /\ outcome = NoneOf
    /\ createErr = NoneOf
    /\ createRes = NoneOf
    /\ ingested = {}
    /\ observed = {}
    /\ listings = 0
    /\ queryRun = FALSE
    /\ ingestCalled = {}
    /\ pending = 0
    /\ inflight = 0
    /\ lastCall = "none"
    /\ slept = 0
    /\ reissued = {}
    /\ buffered = {}
    /\ s3objs = [fg \in FG |-> 0]

----
\* The tuning-step pipeline: the steps the notebook declares.
Steps == {"PreprocessAbaloneDataForHPO", "HPTuning", "HPTuningWarmStart",
          "CreateBestModel", "CreateSecondBestModel", "EvaluateTopModel",
          "RegisterBestAbaloneModel", "CheckMSEAbaloneEvaluation"}

\* A pipeline that is handed the warm-start tuning step too.
PipelineStepsWithWarmStart == {"PreprocessAbaloneDataForHPO", "HPTuning", "HPTuningWarmStart",
                               "CreateBestModel", "CreateSecondBestModel",
                               "EvaluateTopModel", "CheckMSEAbaloneEvaluation"}

\* Pipeline(steps=[...])
PipelineSteps == {"PreprocessAbaloneDataForHPO", "HPTuning", "CreateBestModel",
                  "CreateSecondBestModel", "EvaluateTopModel",
                  "CheckMSEAbaloneEvaluation"}

\* ConditionStep(if_steps=[step_register_best], else_steps=[])
IfSteps == {"RegisterBestAbaloneModel"}
ElseSteps == {}

\* A tuning step fed from a literal S3 path instead of step_process.properties.
ReferencesLiteralInput(s) ==
    CASE s = "PreprocessAbaloneDataForHPO" -> {}
      [] s = "HPTuning" -> {}
      [] s = "HPTuningWarmStart" -> {"HPTuning", "PreprocessAbaloneDataForHPO"}
      [] s = "CreateBestModel" -> {"HPTuning"}
      [] s = "CreateSecondBestModel" -> {"HPTuning"}
      [] s = "EvaluateTopModel" -> {"HPTuning", "PreprocessAbaloneDataForHPO"}
      [] s = "RegisterBestAbaloneModel" -> {"HPTuning"}
      [] s = "CheckMSEAbaloneEvaluation" -> {"EvaluateTopModel"}

\* The steps whose properties (or name, in JsonGet) a step's arguments refer to.
References(s) ==
    CASE s = "PreprocessAbaloneDataForHPO" -> {}
      [] s = "HPTuning" -> {"PreprocessAbaloneDataForHPO"}
      [] s = "HPTuningWarmStart" -> {"HPTuning", "PreprocessAbaloneDataForHPO"}
      [] s = "CreateBestModel" -> {"HPTuning"}
      [] s = "CreateSecondBestModel" -> {"HPTuning"}
      [] s = "EvaluateTopModel" -> {"HPTuning", "PreprocessAbaloneDataForHPO"}
      [] s = "RegisterBestAbaloneModel" -> {"HPTuning"}
      [] s = "CheckMSEAbaloneEvaluation" -> {"EvaluateTopModel"}

\* The ModelSteps made from Model.create, and those made from Model.register.
CreateSteps == {"CreateBestModel", "CreateSecondBestModel"}
RegisterSteps == {"RegisterBestAbaloneModel"}

\* model_package_group_name
ModelPackageGroup == "model_package_group_name"

\* A registration made from second_best_model.register.
TopKRegisterSecond(s) ==
    CASE s = "CreateBestModel" -> 0
      [] s = "CreateSecondBestModel" -> 1
      [] s = "EvaluateTopModel" -> 0
      [] s = "RegisterBestAbaloneModel" -> 1
      [] OTHER -> -1

\* The top_k of step_tuning.get_top_model_s3_uri a step takes its model from:
\* best_model (top_k=0) for CreateBestModel and for register_args,
\* second_best_model (top_k=1), the evaluation's first ProcessingInput (top_k=0).
TopK(s) ==
    CASE s = "CreateBestModel" -> 0
      [] s = "CreateSecondBestModel" -> 1
      [] s = "EvaluateTopModel" -> 0
      [] s = "RegisterBestAbaloneModel" -> 0
      [] OTHER -> -1

\* ConditionLessThanOrEqualTo(left=JsonGet(... "regression_metrics.mse.value"), right=6.0)
Threshold == 6

\* The comparison turned round: ConditionGreaterThanOrEqualTo.
ConditionHoldsAbove(m) == m >= Threshold

ConditionHolds(m) == m <= Threshold

\* The branch a decided condition step selects.
Selected ==
    IF condOutcome = "true" THEN IfSteps
    ELSE IF condOutcome = "false" THEN ElseSteps
    ELSE {}

\* The steps the engine may start: those of the pipeline whose referenced steps
\* have succeeded, and those of the selected branch likewise.
Runnable ==
    {s \in PipelineSteps \cup Selected :
        /\ stepStatus[s] = "NotStarted"
        /\ \A d \in References(s) : stepStatus[d] = "Succeeded"}

dpIdle == <<dpVars, qVars, dVars, hVars>>
regVars == <<created, evaluated, registry>>

\* pipeline.upsert(role_arn=role)
PipelineUpsert ==
    /\ pstate = "defined"
    /\ pstate' = "upserted"
    /\ UNCHANGED <<stepStatus, mse, condOutcome, regVars, dpIdle>>

\* pipeline.start()
PipelineStart ==
    /\ pstate = "upserted"
    /\ pstate' = "started"
    /\ UNCHANGED <<stepStatus, mse, condOutcome, regVars, dpIdle>>

\* The engine starts a step; a failed step ends the execution.
StartStep(s) ==
    /\ pstate = "started"
    /\ s \in Runnable
    /\ \A t \in Steps : stepStatus[t] # "Failed"
    /\ stepStatus' = [stepStatus EXCEPT ![s] = "Executing"]
    /\ UNCHANGED <<pstate, mse, condOutcome, regVars, dpIdle>>

\* A job step ends. The model steps create a SageMaker Model from their
\* model_data, evaluate.py reads the model it is given and writes
\* regression_metrics.mse.value, the registration step adds its model to the
\* model package group as a version.
FinishStep(s) ==
    /\ s # "CheckMSEAbaloneEvaluation"
    /\ stepStatus[s] = "Executing"
    /\ \/ /\ stepStatus' = [stepStatus EXCEPT ![s] = "Succeeded"]
          /\ IF s = "EvaluateTopModel"
             THEN mse' \in 0..MaxMse /\ evaluated' = TopK(s)
             ELSE mse' = mse /\ evaluated' = evaluated
          /\ created' = IF s \in CreateSteps THEN created \cup {TopK(s)} ELSE created
          /\ registry' = IF s \in RegisterSteps
                         THEN registry \cup {<<ModelPackageGroup, TopK(s)>>}
                         ELSE registry
       \/ /\ stepStatus' = [stepStatus EXCEPT ![s] = "Failed"]
          /\ UNCHANGED <<mse, regVars>>
    /\ UNCHANGED <<pstate, condOutcome, dpIdle>>

\* The condition step evaluates its condition on the property file.
EvaluateCondition ==
    /\ stepStatus["CheckMSEAbaloneEvaluation"] = "Executing"
    /\ condOutcome' = IF ConditionHolds(mse) THEN "true" ELSE "false"
    /\ stepStatus' = [stepStatus EXCEPT !["CheckMSEAbaloneEvaluation"] = "Succeeded"]
    /\ UNCHANGED <<pstate, mse, regVars, dpIdle>>

PipelineIdle ==
    /\ pstate = "defined"
    /\ stepStatus = [s \in Steps |-> "NotStarted"]
    /\ mse = -1
    /\ condOutcome = "none"
    /\ created = {}
    /\ evaluated = -1
    /\ registry = {}

\* The deployment notebook (GPT-J-6B-model-parallel-inference-DJL.ipynb).
Files == {"model.py", "serving.properties"}

\* No directory gpt-j, no archive.
NoDir == {"absent"}

\* The cells in their order; the first three are the commands of the %%sh cell
\* that pushes the image.
DeployOrder == <<"describe_repo", "create_repo", "push", "write_model", "write_props",
                 "package", "upload", "create_model", "create_config", "create_endpoint",
                 "invoke", "delete", "done">>

\* The cells a user can run: the %%sh image cell starts at its first command.
DeployCells == {"describe_repo", "write_model", "write_props", "package", "upload",
                "create_model", "create_config", "create_endpoint", "invoke", "delete"}

IndexOf(c) == CHOOSE i \in 1..Len(DeployOrder) : DeployOrder[i] = c

DeployAfter(c) == DeployOrder[IndexOf(c) + 1]

EndpointStatuses == {"Creating", "InService", "Failed", "Deleting"}

Names == 1..MaxClock

deployIdle == <<dpVars, qVars, pVars, hVars>>

scriptVars == <<describeExit, repoSeen, createCalled, pushSaw>>
fileVars == <<files, written, gptj, tar>>
kernelVars == <<modelUrl, timeStamp, modelName, configName, endpointName, invokeSaw>>
serviceVars == <<uploaded, models, configs, endpoint>>
runVars == <<calls, runFrom>>

\* A remote call of the deployment is issued.
DeployCall(c) == calls' = Append(calls, c)

\* The cell ends and the next one runs.
DeployGoto(c) ==
    /\ dcell' = c
    /\ reached' = IF IndexOf(c) > reached THEN IndexOf(c) ELSE reached
    /\ dexc' = dexc

\* The cell raises: the run stops.
DeployRaise(e) ==
    /\ dexc' = e
    /\ UNCHANGED <<dcell, reached>>

Running(c) == dcell = c /\ dexc = "none"

\* aws ecr describe-repositories --repository-names "${img}" > /dev/null 2>&1
\* It exits 0 only for a repository that exists; it fails when there is none,
\* and when the call itself fails.
DescribeRepositories ==
    /\ Running("describe_repo")
    /\ repoSeen' = repo
    /\ createCalled' = FALSE
    /\ pushSaw' = "none"
    /\ \E x \in (IF repo THEN {0} ELSE {}) \cup {1} :
        /\ describeExit' = x
        \* if [ $? -ne 0 ]
        /\ IF x # 0 THEN DeployGoto("create_repo") ELSE DeployGoto("push")
    /\ UNCHANGED <<jumps, runVars, fileVars, kernelVars, serviceVars, repo, clock, deployIdle>>

\* aws ecr create-repository --repository-name "${img}" > /dev/null
\* Its exit status is not looked at: the script goes on.
CreateRepository ==
    /\ Running("create_repo")
    /\ createCalled' = TRUE
    /\ \/ repo' = TRUE /\ ~repo
       \/ repo' = repo
    /\ DeployGoto("push")
    /\ UNCHANGED <<jumps, runVars, describeExit, repoSeen, pushSaw, fileVars, kernelVars, serviceVars,
                   clock, deployIdle>>

\* docker login, docker tag, docker push $fullname: the last command, whose
\* exit status is the cell's.
DockerPush ==
    /\ Running("push")
    /\ pushSaw' = IF repo THEN "exists" ELSE "missing"
    /\ \/ repo /\ DeployGoto(DeployAfter(dcell))
       \/ DeployRaise("CalledProcessError")
    /\ UNCHANGED <<jumps, runVars, describeExit, repoSeen, createCalled, fileVars, kernelVars,
                   serviceVars, repo, clock, deployIdle>>

\* %%writefile model.py and %%writefile serving.properties
WriteFile(c, f) ==
    /\ Running(c)
    /\ files' = files \cup {f}
    /\ written' = written \cup {f}
    /\ DeployGoto(DeployAfter(dcell))
    /\ UNCHANGED <<jumps, runVars, gptj, tar, scriptVars, kernelVars, serviceVars, repo, clock,
                   deployIdle>>

\* The commands of the packaging script, on the pair of the working
\* directory's files and the directory gpt-j.
\* if [ -d gpt-j ]; then rm -d -r gpt-j; fi
RmDir(w) == [cwd |-> w.cwd, dir |-> NoDir]

\* mkdir -p gpt-j
MkDir(w) == [cwd |-> w.cwd, dir |-> IF w.dir = NoDir THEN {} ELSE w.dir]

\* mv f gpt-j: fails and changes nothing when there is no f
Mv(f, w) ==
    IF f \in w.cwd THEN [cwd |-> w.cwd \ {f}, dir |-> w.dir \cup {f}] ELSE w

Packaged(w) == Mv("serving.properties", Mv("model.py", MkDir(RmDir(w))))

\* The packaging cell; tar -czvf gpt-j.tar.gz gpt-j/ is its last command.
PackagingCell ==
    /\ Running("package")
    /\ LET w == Packaged([cwd |-> files, dir |-> gptj]) IN
        /\ files' = w.cwd
        /\ gptj' = w.dir
        /\ tar' = w.dir
    /\ DeployGoto(DeployAfter(dcell))
    /\ UNCHANGED <<jumps, runVars, written, scriptVars, kernelVars, serviceVars, repo, clock, deployIdle>>

\* model_s3_url = sagemaker.s3.S3Uploader.upload("gpt-j.tar.gz", path, ...)
Upload ==
    /\ Running("upload")
    /\ DeployCall([api |-> "Upload"])
    /\ \/ /\ tar # NoDir
          /\ uploaded' = tar
          /\ modelUrl' = "set"
          /\ DeployGoto(DeployAfter(dcell))
       \/ /\ DeployRaise("UploadFailed")
          /\ UNCHANGED <<uploaded, modelUrl>>
    /\ UNCHANGED <<jumps, runFrom, fileVars, scriptVars, timeStamp, modelName, configName, endpointName,
                   invokeSaw, models, configs, endpoint, repo, clock, deployIdle>>

\* time_stamp = datetime.now()...; model_name = "gpt-j-" + time_stamp;
\* sm_client.create_model(ModelName=model_name, ...)
CreateModel ==
    /\ Running("create_model")
    /\ DeployCall([api |-> "CreateModel", name |-> clock, url |-> modelUrl])
    /\ timeStamp' = clock
    /\ modelName' = clock
    /\ \/ /\ clock \notin models
          /\ models' = models \cup {clock}
          /\ DeployGoto(DeployAfter(dcell))
       \/ /\ DeployRaise("ClientError")
          /\ UNCHANGED models
    /\ UNCHANGED <<jumps, runFrom, fileVars, scriptVars, modelUrl, configName, endpointName, invokeSaw,
                   uploaded, configs, endpoint, repo, clock, deployIdle>>

\* endpoint_config_name = "t-j-config-" + time_stamp;
\* sm_client.create_endpoint_config(**endpoint_config), its variant naming model_name
CreateEndpointConfig ==
    /\ Running("create_config")
    /\ DeployCall([api |-> "CreateEndpointConfig", name |-> timeStamp, model |-> modelName])
    /\ configName' = timeStamp
    /\ \/ /\ modelName \in models
          /\ \A c \in configs : c[1] # timeStamp
          /\ configs' = configs \cup {<<timeStamp, modelName>>}
          /\ DeployGoto(DeployAfter(dcell))
       \/ /\ DeployRaise("ClientError")
          /\ UNCHANGED configs
    /\ UNCHANGED <<jumps, runFrom, fileVars, scriptVars, modelUrl, timeStamp, modelName, endpointName,
                   invokeSaw, uploaded, models, endpoint, repo, clock, deployIdle>>

\* endpoint_name = "gpt-j" + time_stamp;
\* sm_client.create_endpoint(EndpointName=endpoint_name, EndpointConfigName=...)
\* The call returns as soon as the creation has begun.
CreateEndpoint ==
    /\ Running("create_endpoint")
    /\ DeployCall([api |-> "CreateEndpoint", name |-> timeStamp, config |-> configName])
    /\ endpointName' = timeStamp
    /\ \/ /\ endpoint[timeStamp] = "Absent"
          /\ \E c \in configs : c[1] = configName
          /\ endpoint' = [endpoint EXCEPT ![timeStamp] = "Creating"]
          /\ DeployGoto(DeployAfter(dcell))
       \/ /\ DeployRaise("ClientError")
          /\ UNCHANGED endpoint
    /\ UNCHANGED <<jumps, runFrom, fileVars, scriptVars, modelUrl, timeStamp, modelName, configName,
                   invokeSaw, uploaded, models, configs, repo, clock, deployIdle>>

\* client.invoke_endpoint(EndpointName=endpoint_name, ...): answered by an
\* endpoint in service, an error for any other.
InvokeEndpoint ==
    /\ Running("invoke")
    /\ DeployCall([api |-> "InvokeEndpoint", name |-> endpointName])
    /\ invokeSaw' = endpoint[endpointName]
    /\ \/ /\ endpoint[endpointName] = "InService"
          /\ DeployGoto(DeployAfter(dcell))
       \/ DeployRaise("ClientError")
    /\ UNCHANGED <<jumps, runFrom, fileVars, scriptVars, modelUrl, timeStamp, modelName, configName,
                   endpointName, serviceVars, repo, clock, deployIdle>>

\* sm_client.delete_endpoint(endpoint_name): the name is passed by position,
\* which a boto3 client method rejects before any request is sent.
DeleteEndpoint ==
    /\ Running("delete")
    /\ DeployRaise("TypeError")
    /\ UNCHANGED <<jumps, runVars, fileVars, scriptVars, kernelVars, serviceVars, repo, clock,
                   deployIdle>>

\* The user goes back to a cell already run and runs the notebook on from there.
RunCellAgain(c) ==
    /\ jumps < MaxJumps
    /\ IndexOf(c) <= reached
    /\ dcell \notin {"create_repo", "push"} \/ dexc # "none"
    /\ jumps' = jumps + 1
    /\ dcell' = c
    /\ dexc' = "none"
    /\ calls' = <<>>
    /\ runFrom' = c
    /\ UNCHANGED <<reached, fileVars, scriptVars, kernelVars, serviceVars, repo, clock,
                   deployIdle>>

\* Time passes.
Tick ==
    /\ clock < MaxClock
    /\ clock' = clock + 1
    /\ UNCHANGED <<dcell, dexc, reached, jumps, runVars, fileVars, scriptVars, kernelVars, serviceVars,
                   repo, deployIdle>>

\* The hosting service brings an endpoint up, or fails to.
EndpointStep(n) ==
    /\ endpoint[n] = "Creating"
    /\ \E st \in {"InService", "Failed"} : endpoint' = [endpoint EXCEPT ![n] = st]
    /\ UNCHANGED <<dcell, dexc, reached, jumps, runVars, fileVars, scriptVars, kernelVars, uploaded,
                   models, configs, repo, clock, deployIdle>>

\* Before the first cell: a fresh kernel and working directory, no resources.
DeployStart ==
    /\ dcell = "describe_repo"
    /\ dexc = "none"
    /\ reached = 1
    /\ jumps = 0
    /\ files = {}
    /\ written = {}
    /\ gptj = NoDir
    /\ tar = NoDir
    /\ describeExit = -1
    /\ repoSeen = FALSE
    /\ createCalled = FALSE
    /\ pushSaw = "none"
    /\ modelUrl = "none"
    /\ timeStamp = 0
    /\ modelName = 0
    /\ configName = 0
    /\ endpointName = 0
    /\ invokeSaw = "none"
    /\ calls = <<>>
    /\ runFrom = "describe_repo"
    /\ uploaded = NoDir
    /\ clock = 1
    /\ models = {}
    /\ configs = {}
    /\ endpoint = [n \in Names |-> "Absent"]

DeployIdle ==
    /\ DeployStart
    /\ repo = FALSE

----
\* model.py: the inference handler, called by a model server worker.
handlerIdle == <<dpVars, qVars, pVars, dVars>>

Texts == {"Amazon.com is the best", "Hello"}

\* An Input: empty, or holding a text.
EmptyInput == [empty |-> TRUE, text |-> ""]
Inputs == {EmptyInput} \cup {[empty |-> FALSE, text |-> t] : t \in Texts}

\* What a call of handle ends with: None, Output().add(result), or an exception.
None == [kind |-> "None", content |-> <<>>]
Output(result) == [kind |-> "Output", content |-> <<result>>]
Raised == [kind |-> "Raised", content |-> <<>>]

\* predictor(data, do_sample=True, min_tokens=200, max_new_tokens=256): one of
\* the texts sampling can continue data with.
Generations(data) == {[prompt |-> data, sample |-> k] : k \in 1..MaxSamples}

\* A handler without the warm-up branch.
NeverEmpty(inputs) == FALSE

\* inputs.is_empty()
IsEmpty(inputs) == inputs.empty

\* def handle(inputs): load the model if there is none, return None for an
\* empty input, else run the generator on the input's string.
Handle(inputs) ==
    /\ Len(served) < MaxRequests
    /\ \/ \* get_model() raises
          /\ predictor = "None"
          /\ predictor' = predictor
          /\ served' = Append(served, [input |-> inputs, output |-> Raised, ran |-> FALSE])
       \/ /\ predictor' = "generator"
          /\ IF IsEmpty(inputs)
             THEN served' = Append(served, [input |-> inputs, output |-> None, ran |-> FALSE])
             ELSE \/ \E result \in Generations(inputs.text) :
                        served' = Append(served, [input |-> inputs, output |-> Output(result),
                                                  ran |-> TRUE])
                  \/ served' = Append(served, [input |-> inputs, output |-> Raised,
                                               ran |-> TRUE])
    /\ UNCHANGED handlerIdle

HandlerIdle ==
    /\ predictor = "None"
    /\ served = <<>>

----
\* A first run: each group is new, or left there by an earlier session.
Init ==
    /\ DataPrepInit
    /\ remote \in [FG -> {"Absent", "Created"}]
    /\ claimsCols = ClaimsColumns
    /\ customersCols = CustomersColumns
    /\ queryString = <<>>
    /\ PipelineIdle
    /\ DeployIdle
    /\ HandlerIdle

Client ==
    \/ BucketCell
    \/ \E fg \in FG : CreateFeatureGroup(fg)
    \/ \E fg \in FG : Describe(fg)
    \/ \E fg \in FG : PollSleep(fg)
    \/ \E fg \in FG : PollFinish(fg)
    \/ IngestSkip
    \/ \E fg \in FG : Ingest(fg)
    \/ \E fg \in FG : PutRecord(fg)
    \/ \E fg \in FG : PutRecordDone(fg)
    \/ \E fg \in FG : IngestWait(fg)
    \/ TablesCell
    \/ ListObjects
    \/ OfflineSleep
    \/ CatalogCell
    \/ BuildQuery
    \/ RunQuery

Environment ==
    \/ \E fg \in FG : RemoteStep(fg)
    \/ \E fg \in FG : OfflineWrite(fg)

Next ==
    \/ Client
    \/ Rerun
    \/ Environment

Spec == Init /\ [][Next]_vars

----
\* The notebook up to the end of the cell that waits for the two groups, on
\* groups in any remote state. The interpreter keeps running the next
\* statement; the services owe nothing.
WaitInit ==
    /\ DataPrepInit
    /\ remote \in [FG -> {"Absent"} \cup Statuses]
    /\ claimsCols = ClaimsColumns
    /\ customersCols = CustomersColumns
    /\ queryString = <<>>
    /\ PipelineIdle
    /\ DeployIdle
    /\ HandlerIdle

WaitClient ==
    \/ BucketCell
    \/ \E fg \in FG : CreateFeatureGroup(fg)
    \/ \E fg \in FG : Describe(fg)
    \/ \E fg \in FG : PollSleep(fg)
    \/ \E fg \in FG : PollFinish(fg)

WaitNext ==
    \/ WaitClient
    \/ \E fg \in FG : RemoteStep(fg)

WaitSpec == WaitInit /\ [][WaitNext]_vars /\ WF_vars(WaitClient)

----
\* The query cell on the dataframes of any two feature groups: both hold the
\* record identifier and the event time, and any of the other columns.
ExtraColumns == {"fraud", "incident_day", "customer_age"}
Frames == {{"policy_id", "event_time"} \cup S : S \in SUBSET ExtraColumns}

QueryInit ==
    /\ cell = "build_query"
    /\ run = 1
    /\ locals = {"bucket", "claims_table", "customers_table"}
    /\ exc = NoExc
    /\ wpc = "call"
    /\ status = [fg \in FG |-> "Created"]
    /\ responses = [fg \in FG |-> <<"Created">>]
    /\ queries = [fg \in FG |-> 1]
    /\ sleeps = [fg \in FG |-> <<>>]
    /\ outcome = [fg \in FG |-> "returned"]
    /\ createErr = [fg \in FG |-> "ResourceInUse"]
    /\ createRes = [fg \in FG |-> "swallowed"]
    /\ ingested = FG
    /\ observed = WaitedPrefixes
    /\ listings = 1
    /\ queryRun = FALSE
    /\ ingestCalled = FG
    /\ pending = 0
    /\ inflight = 0
    /\ lastCall = "DescribeFeatureGroup"
    /\ slept = 0
    /\ reissued = {}
    /\ remote = [fg \in FG |-> "Created"]
    /\ buffered = FG
    /\ s3objs = [fg \in FG |-> MaxObjects]
    /\ claimsCols \in Frames
    /\ customersCols \in Frames
    /\ queryString = <<>>
    /\ PipelineIdle
    /\ DeployIdle
    /\ HandlerIdle

QueryNext == BuildQuery

QuerySpec == QueryInit /\ [][QueryNext]_vars

----
\* The pipeline, upserted and started, run by the execution engine.
PipelineInit ==
    /\ DataPrepInit
    /\ remote = [fg \in FG |-> "Absent"]
    /\ claimsCols = ClaimsColumns
    /\ customersCols = CustomersColumns
    /\ queryString = <<>>
    /\ PipelineIdle
    /\ DeployIdle
    /\ HandlerIdle

PipelineNext ==
    \/ PipelineUpsert
    \/ PipelineStart
    \/ \E s \in Steps : StartStep(s)
    \/ \E s \in Steps : FinishStep(s)
    \/ EvaluateCondition

PipelineSpec == PipelineInit /\ [][PipelineNext]_vars

----
\* The deployment notebook, run cell by cell, with the services it calls.
DeployInit ==
    /\ DataPrepInit
    /\ remote = [fg \in FG |-> "Absent"]
    /\ claimsCols = ClaimsColumns
    /\ customersCols = CustomersColumns
    /\ queryString = <<>>
    /\ PipelineIdle
    /\ DeployStart
    /\ repo \in BOOLEAN
    /\ HandlerIdle

DeployNext ==
    \/ DescribeRepositories
    \/ CreateRepository
    \/ DockerPush
    \/ WriteFile("write_model", "model.py")
    \/ WriteFile("write_props", "serving.properties")
    \/ PackagingCell
    \/ Upload
    \/ CreateModel
    \/ CreateEndpointConfig
    \/ CreateEndpoint
    \/ InvokeEndpoint
    \/ DeleteEndpoint
    \/ \E c \in DeployCells : RunCellAgain(c)
    \/ Tick
    \/ \E n \in Names : EndpointStep(n)

DeploySpec == DeployInit /\ [][DeployNext]_vars

----
\* The handler in a worker of the model server, called with any inputs.
HandlerInit ==
    /\ DataPrepInit
    /\ remote = [fg \in FG |-> "Absent"]
    /\ claimsCols = ClaimsColumns
    /\ customersCols = CustomersColumns
    /\ queryString = <<>>
    /\ PipelineIdle
    /\ DeployIdle
    /\ HandlerIdle

HandlerNext == \E inputs \in Inputs : Handle(inputs)

HandlerSpec == HandlerInit /\ [][HandlerNext]_vars

----
\* The poller's client-side state, read off its local variable status.
PollState(fg) ==
    IF status[fg] \in {"Unset", "Creating"} THEN "Pending"
    ELSE IF status[fg] = "Created" THEN "Ready"
    ELSE "Failed"

LastOf(seq) == seq[Len(seq)]

AllCreating(seq) == \A i \in 1..Len(seq) : seq[i] = "Creating"

WaitCells == {"wait_claims", "wait_customers"}

----
\* C1: wait_for_feature_group_creation_complete queries again only while the
\* status is "Creating" and stops at the first other status: it has returned
\* normally only on "Created", it has raised only on another status (a missing
\* one included), and then the RuntimeError names the feature group; no query
\* follows a status other than "Creating".
C1_StopsAtFirstOtherStatus ==
    \A fg \in FG :
        LET r == responses[fg] IN
        /\ \A i \in 1..(Len(r) - 1) : r[i] = "Creating"
        /\ (Len(r) > 0 /\ LastOf(r) # "Creating") => queries[fg] = Len(r)
        /\ outcome[fg] = "returned" => (Len(r) > 0 /\ LastOf(r) = "Created")
        /\ outcome[fg] = "raised" =>
               /\ Len(r) > 0
               /\ LastOf(r) \notin {"Creating", "Created"}
               /\ cell = "aborted"
               /\ exc = [type |-> "RuntimeError", code |-> "none", about |-> fg]
        /\ (outcome[fg] = "none" /\ Len(r) > 0 /\ LastOf(r) # "Creating") =>
               (cell = CellOf("wait", fg) /\ wpc = "test")

C1_Witness ==
    /\ outcome["claims"] = "returned"
    /\ Len(responses["claims"]) >= 2
    /\ outcome["customers"] = "raised"
    /\ Len(responses["customers"]) >= 2
    /\ LastOf(responses["customers"]) = "None"

\* C2: once a status other than "Creating" has been answered the poller
\* terminates; after Creating, Creating, Created it has returned normally and
\* after Creating, CreateFailed it has raised.
C2_PollerTerminates ==
    \A fg \in FG :
        /\ (\E i \in 1..Len(responses[fg]) : responses[fg][i] # "Creating")
               ~> (outcome[fg] # "none")
        /\ (responses[fg] = <<"Creating", "Creating", "Created">>)
               ~> (outcome[fg] = "returned")
        /\ (responses[fg] = <<"Creating", "CreateFailed">>)
               ~> (outcome[fg] = "raised")

C2_Witness ==
    /\ responses["claims"] = <<"Creating", "Creating", "Created">>
    /\ outcome["claims"] = "returned"
    /\ responses["customers"] = <<"Creating", "CreateFailed">>
    /\ outcome["customers"] = "raised"

\* C3: the poller's state is Pending before the first response; within one run
\* it changes only in a step that receives a status response, and Ready and
\* Failed are never left.
C3_PollerStates ==
    /\ [](\A fg \in FG : /\ PollState(fg) \in {"Pending", "Ready", "Failed"}
                         /\ responses[fg] = <<>> => PollState(fg) = "Pending")
    /\ [][\A fg \in FG : run' = run =>
            /\ PollState(fg)' # PollState(fg) =>
                   Len(responses'[fg]) = Len(responses[fg]) + 1
            /\ PollState(fg) \in {"Ready", "Failed"} =>
                   PollState(fg)' = PollState(fg)]_vars

C3_Witness ==
    /\ PollState("claims") = "Ready"
    /\ PollState("customers") = "Failed"
    /\ Len(responses["claims"]) >= 2
    /\ Len(responses["customers"]) >= 2
    /\ cell = "aborted"

\* C4: the poller has no limit of its own. It has returned or raised only after
\* a status other than "Creating"; and while the first n answers (n below the
\* model's bound) are all "Creating" it goes on to issue query n+1.
C4_NoClientSideLimit ==
    /\ [](\A fg \in FG : outcome[fg] \in {"returned", "raised"} =>
              (Len(responses[fg]) > 0 /\ LastOf(responses[fg]) # "Creating"))
    /\ \A fg \in FG : \A n \in 0..(MaxPolls - 1) :
           (/\ cell = CellOf("wait", fg)
            /\ Len(responses[fg]) = n
            /\ queries[fg] = n
            /\ AllCreating(responses[fg]))
               ~> (queries[fg] >= n + 1)

C4_Witness ==
    \E fg \in FG :
        /\ Len(responses[fg]) = MaxPolls
        /\ AllCreating(responses[fg])
        /\ Len(sleeps[fg]) = MaxPolls
        /\ outcome[fg] = "none"

----
\* The SELECT DISTINCT list of a query: the tokens between SELECT DISTINCT and FROM.
FromAt(q) == CHOOSE i \in 1..Len(q) : q[i] = "FROM"

SelectList(q) == SubSeq(q, 2, FromAt(q) - 1)

\* A comma-separated list with no empty item: expressions at the odd places,
\* commas at the even ones, an expression first and last.
WellFormedList(l) ==
    /\ Len(l) > 0
    /\ Len(l) % 2 = 1
    /\ \A i \in 1..Len(l) : (l[i] = Comma) <=> (i % 2 = 0)

\* C5: whatever the two column sets, the assembled query has a well-formed
\* SELECT DISTINCT list: non-empty, no empty item, no comma right before FROM.
C5_QueryWellFormed ==
    queryString # <<>> =>
        /\ queryString[1] = "SELECT DISTINCT"
        /\ WellFormedList(SelectList(queryString))

----
\* C6 as stated: the registration step is selected exactly when the metric is
\* below the threshold.
C6_SelectedBelowThreshold ==
    condOutcome # "none" =>
        ("RegisterBestAbaloneModel" \in Selected <=> mse < Threshold)

\* C6: the registration step is selected exactly when the metric is at most
\* the threshold 6.0 (the threshold itself included), and it runs in no
\* execution whose metric is above it.
C6_SelectedAtOrBelowThreshold ==
    /\ condOutcome # "none" =>
           ("RegisterBestAbaloneModel" \in Selected <=> mse <= Threshold)
    /\ stepStatus["RegisterBestAbaloneModel"] # "NotStarted" =>
           (condOutcome = "true" /\ mse <= Threshold)
    /\ (condOutcome = "false") =>
           stepStatus["RegisterBestAbaloneModel"] = "NotStarted"

C6_Witness ==
    /\ mse = Threshold
    /\ condOutcome = "true"
    /\ stepStatus["RegisterBestAbaloneModel"] = "Succeeded"

----
\* What a step waits for: the steps it refers to, and for a step of a branch
\* the condition step that selects it.
WaitsFor(s) ==
    References(s) \cup
        (IF s \in IfSteps \cup ElseSteps THEN {"CheckMSEAbaloneEvaluation"} ELSE {})

RECURSIVE Upstream(_, _)
Upstream(S, k) ==
    IF k = 0 THEN S
    ELSE Upstream(S \cup UNION {WaitsFor(t) : t \in S}, k - 1)

Started(s) == stepStatus[s] # "NotStarted"
Completed(s) == stepStatus[s] = "Succeeded"

\* C7: the declared graph has no cycle, and in every execution a step has
\* started only after the steps before it completed: HPTuning after the
\* preprocessing, both model steps and the evaluation after HPTuning, the
\* condition after the evaluation, the registration after the condition.
C7_StepOrder ==
    /\ \A s \in Steps : s \notin Upstream(WaitsFor(s), Cardinality(Steps))
    /\ Started("HPTuning") => Completed("PreprocessAbaloneDataForHPO")
    /\ \A s \in {"CreateBestModel", "CreateSecondBestModel", "EvaluateTopModel"} :
           Started(s) => Completed("HPTuning")
    /\ Started("CheckMSEAbaloneEvaluation") => Completed("EvaluateTopModel")
    /\ Started("RegisterBestAbaloneModel") =>
           (Completed("CheckMSEAbaloneEvaluation") /\ condOutcome # "none")

C7_Witness ==
    /\ Completed("RegisterBestAbaloneModel")
    /\ Completed("CreateBestModel")
    /\ Completed("CreateSecondBestModel")

----
\* C8: a create call's error is swallowed, and the next statement runs, exactly
\* when its code is "ResourceInUse"; any other error ends the run with an
\* exception (the ClientError itself when it carries a code), and after the
\* claims call raised the customers call is not made.
C8_OnlyResourceInUseSwallowed ==
    /\ [](/\ \A fg \in FG : createErr[fg] \notin {"none", "ok"} =>
                (createRes[fg] = "swallowed" <=> createErr[fg] = "ResourceInUse")
          /\ createRes["claims"] = "raised" =>
                (createErr["customers"] = "none" /\ createRes["customers"] = "none"))
    /\ [][\A fg \in FG :
            (createErr'[fg] # createErr[fg] /\ createErr'[fg] \notin {"none", "ok"}) =>
                IF createErr'[fg] = "ResourceInUse"
                THEN cell' = After(cell) /\ exc' = NoExc
                ELSE /\ cell' = "aborted"
                     /\ createRes'[fg] = "raised"
                     /\ exc'.about = fg
                     /\ createErr'[fg] # "NoCode" =>
                            exc' = [type |-> "ClientError", code |-> createErr'[fg],
                                    about |-> fg]]_vars

C8_Witness ==
    /\ createRes["claims"] = "swallowed"
    /\ createErr["customers"] = "AccessDenied"
    /\ createRes["customers"] = "raised"
    /\ cell = "aborted"

----
\* C9: the join query has been submitted only after the offline-store wait
\* observed data under the prefixes of both tables the query reads.
C9_QueryAfterBothObserved ==
    queryRun => FG \subseteq observed

----
\* C10 as stated: the only call re-issued after a sleep is the status query of
\* wait_for_feature_group_creation_complete.
C10_OnlyPollerReissues ==
    \A r \in reissued : r[1] = "DescribeFeatureGroup" /\ r[3] \in WaitCells

\* C10: a call is re-issued after a sleep in two loops only: the status query
\* of the poller after its 5 s sleep, and list_objects of the offline-store
\* wait after its 60 s sleep.
C10_TwoRetryLoops ==
    \A r \in reissued :
        \/ r[1] = "DescribeFeatureGroup" /\ r[2] = PollInterval /\ r[3] \in WaitCells
        \/ r[1] = "ListObjects" /\ r[2] = OfflineInterval /\ r[3] = "offline_wait"

C10_Witness ==
    /\ \E r \in reissued : r[1] = "DescribeFeatureGroup"
    /\ \E r \in reissued : r[1] = "ListObjects"
    /\ queryRun

----
\* C11 as stated: at any moment at most one remote call of the client is in
\* flight, during the ingestion too.
C11_OneCallInFlight ==
    inflight <= 1

\* C11: the notebook's own thread blocks on every call, so outside the two
\* ingest calls no call is in flight when the next statement runs; inside
\* ingest(max_workers=3, wait=True) up to three PutRecord calls are in flight
\* at once and never more, and ingest returns only when none is.
C11_AtMostMaxWorkersInFlight ==
    /\ inflight <= MaxWorkers
    /\ inflight > 0 => (cell \in IngestCells /\ lastCall = "PutRecord")
    /\ cell \notin IngestCells => (inflight = 0 /\ pending = 0)

C11_Witness ==
    /\ cell = "ingest_customers"
    /\ inflight = MaxWorkers
    /\ pending > 0
    /\ "claims" \in ingested

----
\* C12: records are ingested only after both feature groups were waited for:
\* an ingest call (and any PutRecord of it) is made only when both
\* wait_for_feature_group_creation_complete calls of this run have returned
\* normally; when the wait for the claims group raised, the run has stopped,
\* the customers group is not waited for and nothing is ingested.
C12_IngestAfterBothCreated ==
    /\ (ingestCalled # {} \/ ingested # {} \/ pending > 0 \/ inflight > 0) =>
           \A fg \in FG : outcome[fg] = "returned"
    /\ outcome["claims"] \in {"raised", "error"} =>
           /\ cell = "aborted"
           /\ queries["customers"] = 0
           /\ outcome["customers"] = "none"
           /\ ingestCalled = {}
           /\ ingested = {}

C12_Witness ==
    /\ ingested = FG
    /\ \A fg \in FG : outcome[fg] = "returned" /\ Len(responses[fg]) >= 2
    /\ cell = "tables"

----
\* C13: running the notebook again picks up what is there. A create call on a
\* group that exists leaves the group as it is, and its ResourceInUse answer is
\* swallowed and the next statement runs; with bucket defined in the session
\* the bucket cell keeps it and asks for none; with claims_table defined in the
\* session no ingest call and no PutRecord is made.
C13_RerunReusesResources ==
    [][run' = run =>
        /\ \A fg \in FG :
              (remote[fg] # "Absent" /\ createErr'[fg] # createErr[fg]) =>
                  /\ remote'[fg] = remote[fg]
                  /\ createErr'[fg] # "ok"
                  /\ createErr'[fg] = "ResourceInUse" =>
                         (createRes'[fg] = "swallowed" /\ cell' = After(cell) /\ exc' = NoExc)
        /\ (cell = "bucket" /\ "bucket" \in locals) =>
              (locals' = locals /\ lastCall' = lastCall)
        /\ "claims_table" \in locals =>
              (ingestCalled' = ingestCalled /\ ingested' = ingested /\ inflight' = inflight
               /\ pending' = pending /\ buffered' = buffered)]_vars

C13_Witness ==
    /\ run = 2
    /\ {"bucket", "claims_table"} \subseteq locals
    /\ \A fg \in FG : createRes[fg] = "swallowed" /\ outcome[fg] = "returned"
    /\ lastCall = "DescribeFeatureGroup"
    /\ ingestCalled = {}
    /\ cell = "offline_wait"
    /\ \A fg \in FG : fg \in buffered

----
\* An execution that has run to its end: started, nothing executing, nothing
\* left to start, nothing failed.
Finished ==
    /\ pstate = "started"
    /\ Runnable = {}
    /\ \A s \in Steps : stepStatus[s] \notin {"Executing", "Failed"}

\* C15: an execution that passed the condition and ran to its end has
\* registered both the top (top_k=0) and the second-best (top_k=1) model as
\* versions of the one model package group.
C15_BothModelsRegistered ==
    (Finished /\ condOutcome = "true") =>
        {<<ModelPackageGroup, 0>>, <<ModelPackageGroup, 1>>} \subseteq registry

C17_WarmStartLeftOut ==
    /\ "HPTuningWarmStart" \notin PipelineSteps \cup IfSteps \cup ElseSteps
    /\ \A s \in PipelineSteps \cup IfSteps \cup ElseSteps :
           "HPTuningWarmStart" \notin Upstream(WaitsFor(s), Cardinality(Steps))
    /\ stepStatus["HPTuningWarmStart"] = "NotStarted"

C17_Witness ==
    /\ Finished
    /\ \A s \in PipelineSteps : stepStatus[s] = "Succeeded"
    /\ stepStatus["HPTuningWarmStart"] = "NotStarted"
    /\ condOutcome = "false"

----
\* C14: invoke_endpoint is issued only for an endpoint that has been created:
\* never while the endpoint of that name is still being created.
C14_InvokeAfterCreated ==
    invokeSaw # "Creating"

----
\* C18: in the image cell create-repository is called exactly when
\* describe-repositories exited non-zero; a repository that existed when the
\* script looked is not created again; and when docker push runs the
\* repository exists.
C18_RepositoryExistsBeforePush ==
    /\ (dcell \in {"push"} \/ pushSaw # "none") => (createCalled <=> describeExit # 0)
    /\ createCalled => ~repoSeen
    /\ pushSaw # "missing"

----
\* C19: once model.py and serving.properties have both been written, every
\* run of the packaging cell leaves a directory gpt-j and an archive
\* gpt-j.tar.gz holding exactly these two files.
C19_PackagingLeavesBothFiles ==
    [][(Running("package") /\ written = Files /\ dcell' = "upload" /\ jumps' = jumps) =>
           (gptj' = Files /\ tar' = Files)]_vars

----
\* C20: a call of handle with an empty input returns None without running
\* inference, and the model is loaded when it returns; a call with a
\* non-empty input that returns gives an Output holding one generation
\* result, the generator's for that input's text.
C20_WarmUpAndInference ==
    \A i \in 1..Len(served) :
        LET e == served[i] IN
        e.output # Raised =>
            /\ predictor = "generator"
            /\ e.input = EmptyInput => (e.output = None /\ ~e.ran)
            /\ e.input # EmptyInput =>
                   /\ e.ran
                   /\ e.output.kind = "Output"
                   /\ Len(e.output.content) = 1
                   /\ e.output.content[1] \in Generations(e.input.text)

C20_Witness ==
    /\ Len(served) = 3
    /\ served[1].input = EmptyInput /\ served[1].output = None
    /\ \A i \in 2..3 : served[i].output.kind = "Output"
    /\ served[2].input.text # served[3].input.text

----
\* The number of "Creating" answers in a sequence of responses.
RECURSIVE CountCreating(_)
CountCreating(seq) ==
    IF seq = <<>> THEN 0
    ELSE (IF Head(seq) = "Creating" THEN 1 ELSE 0) + CountCreating(Tail(seq))

\* C21: when the service has answered "Creating" k times and then another
\* status, the poller has issued exactly k+1 queries and slept exactly k times,
\* 5 seconds each; at any moment there is one sleep between two consecutive
\* queries (a sleep follows a "Creating" answer and a query follows the sleep),
\* and no query is issued once another status has been seen.
C21_QueriesAndSleeps ==
    \A fg \in FG :
        LET r == responses[fg]
            k == CountCreating(r) IN
        /\ \A i \in 1..Len(sleeps[fg]) : sleeps[fg][i] = PollInterval
        /\ (Len(r) > 0 /\ LastOf(r) # "Creating") =>
               /\ Len(r) = k + 1
               /\ queries[fg] = k + 1
               /\ Len(sleeps[fg]) = k
        /\ outcome[fg] \in {"returned", "raised"} =>
               (Len(r) > 0 /\ LastOf(r) # "Creating")
        /\ (outcome[fg] = "none" /\ AllCreating(r)) =>
               /\ queries[fg] = Len(r)
               /\ Len(sleeps[fg]) \in {Len(r) - 1, Len(r)} \cap Nat

C21_Witness ==
    /\ responses["claims"] = <<"Creating", "Created">>
    /\ queries["claims"] = 2 /\ sleeps["claims"] = <<PollInterval>>
    /\ CountCreating(responses["customers"]) = 3
    /\ queries["customers"] = 4
    /\ Len(sleeps["customers"]) = 3
    /\ outcome["customers"] = "raised"

----
\* The cells of the deployment that make a remote call, in their order, and
\* the API each of them calls.
CallCells == <<"upload", "create_model", "create_config", "create_endpoint", "invoke",
               "delete">>

ApiOf(c) ==
    CASE c = "upload" -> "Upload"
      [] c = "create_model" -> "CreateModel"
      [] c = "create_config" -> "CreateEndpointConfig"
      [] c = "create_endpoint" -> "CreateEndpoint"
      [] c = "invoke" -> "InvokeEndpoint"
      [] c = "delete" -> "DeleteEndpoint"

\* The calling cells the current run has executed: those it has passed, and
\* the one it stopped in.
CellsRun ==
    {c \in {CallCells[i] : i \in 1..Len(CallCells)} :
        /\ IndexOf(c) >= IndexOf(runFrom)
        /\ IndexOf(c) < IndexOf(dcell) \/ (c = dcell /\ dexc # "none")}

Earlier(i, api) == {calls[j] : j \in {k \in 1..(i - 1) : calls[k].api = api}}

\* C22: a run issues one call for each calling cell it executes, in the order
\* upload, create_model, create_endpoint_config, create_endpoint,
\* invoke_endpoint, delete_endpoint, and none after a cell raised; in a run
\* from the top the model is given the uploaded archive's URL, the endpoint
\* config names the model created before it, the endpoint the config created
\* before it, and invoke and delete the endpoint created before them.
C22_CallsInOrder ==
    /\ \A i, j \in 1..Len(calls) :
           i < j => IndexOf(CHOOSE c \in CellsRun : ApiOf(c) = calls[i].api)
                        < IndexOf(CHOOSE c \in CellsRun : ApiOf(c) = calls[j].api)
    /\ {calls[i].api : i \in 1..Len(calls)} = {ApiOf(c) : c \in CellsRun}
    /\ Len(calls) = Cardinality(CellsRun)
    /\ IndexOf(runFrom) <= IndexOf("upload") =>
           \A i \in 1..Len(calls) :
               LET c == calls[i] IN
               /\ c.api = "CreateModel" =>
                      (c.url = "set" /\ Earlier(i, "Upload") # {})
               /\ c.api = "CreateEndpointConfig" =>
                      \E m \in Earlier(i, "CreateModel") : m.name = c.model
               /\ c.api = "CreateEndpoint" =>
                      \E g \in Earlier(i, "CreateEndpointConfig") : g.name = c.config
               /\ c.api \in {"InvokeEndpoint", "DeleteEndpoint"} =>
                      \E e \in Earlier(i, "CreateEndpoint") : e.name = c.name

====
